---- MODULE Spec2Model ----
(***************************************************************************)
(* Model of manheim_c7n_tools/policygen.py (class PolicyGen).              *)
(*                                                                         *)
(* Python values are modelled with reference semantics: dicts and lists    *)
(* live on a heap and are named by references, so that in-place mutation   *)
(* and aliasing (base[k] = v, update.append(v), i[k] = v) behave as in the *)
(* source.  Scalars (str) are immutable and stored inline.                 *)
(***************************************************************************)
EXTENDS Integers, Sequences, FiniteSets, TLC

(***************************************************************************)
(* Values.  A tree is a Python value taken by structure (what == compares):*)
(*   S(x)  a scalar (a string)                                             *)
(*   M(f)  a dict, f a function from keys to trees                         *)
(*   L(s)  a list, s a sequence of trees                                   *)
(* A slot is what a dict or list cell holds: a scalar S(x) or a reference  *)
(* R(id) to heap object number id.  A heap is a sequence of objects: M(f)  *)
(* with f from keys to slots, and L(s) with s a sequence of slots.         *)
(* Every kind of value is a record of one field named after the kind.      *)
(***************************************************************************)
S(x) == [str |-> x]

M(f) == [map |-> f]

L(s) == [seq |-> s]

R(id) == [ref |-> id]

\* Python's None, as returned by dict.get(key, None)
NoneV == [none |-> "None"]

\* the kind of a value ("str", "map", "seq", "ref", "none") and its content
Kind(t) == CHOOSE x \in DOMAIN t : TRUE

Val(t) == t[Kind(t)]

Range(s) == {s[i] : i \in DOMAIN s}

\* e, after x has been evaluated: the model checker evaluates the arguments
\* of an operator when they are first used, which nests too deep in loops
Strict(x, e) == IF x = x THEN e ELSE e

\* F of x, with x evaluated once and named
Let(x, F(_)) == F(x)

RECURSIVE SetToSeq(_)
\* some fixed iteration order of a dict's keys
SetToSeq(A) ==
    IF A = {} THEN <<>>
    ELSE LET x == CHOOSE y \in A : TRUE IN <<x>> \o SetToSeq(A \ {x})

IsDict(h, s) == Kind(s) = "ref" /\ Kind(h[Val(s)]) = "map"

IsList(h, s) == Kind(s) = "ref" /\ Kind(h[Val(s)]) = "seq"

\* the fields of dict d / the cells of list l
Fields(h, d) == Val(h[Val(d)])

Cells(h, l) == Val(h[Val(l)])

\* k in d, for a dict d
HasKey(h, d, key) == key \in DOMAIN Fields(h, d)

\* d.get(key, None)
DictGet(h, d, key) == IF HasKey(h, d, key) THEN Fields(h, d)[key] ELSE NoneV

\* d[key] = val
DictSet(h, d, key, val) ==
    [h EXCEPT ![Val(d)] = M((key :> val) @@ Fields(h, d))]

\* del d[key]
DictDel(h, d, key) ==
    [h EXCEPT ![Val(d)] =
        M([x \in (DOMAIN Fields(h, d)) \ {key} |-> Fields(h, d)[x]])]

\* l.append(val)
ListAppend(h, l, val) ==
    [h EXCEPT ![Val(l)] = L(Append(Cells(h, l), val))]

\* a new object: {} or [] or a literal
New(h, obj) == [h |-> Append(h, obj), s |-> R(Len(h) + 1)]

RECURSIVE Tree(_, _)
\* the value a slot denotes, by structure
Tree(h, s) ==
    IF Kind(s) # "ref" THEN s
    ELSE LET o == h[Val(s)] IN
         IF Kind(o) = "map"
         THEN M([key \in DOMAIN Val(o) |-> Tree(h, Val(o)[key])])
         ELSE L([i \in 1..Len(Val(o)) |-> Tree(h, Val(o)[i])])

RECURSIVE Alloc(_, _), AllocSeq(_, _, _)
\* build a tree on the heap out of fresh objects (yaml.load, a literal)
Alloc(h, t) ==
    IF Kind(t) \notin {"map", "seq"} THEN [h |-> h, s |-> t]
    ELSE IF Kind(t) = "seq"
    THEN Let(AllocSeq(h, Val(t), <<>>), LAMBDA r : New(r.h, L(r.slots)))
    ELSE Let(SetToSeq(DOMAIN Val(t)), LAMBDA ks :
         Let(AllocSeq(h, [i \in 1..Len(ks) |-> Val(t)[ks[i]]], <<>>),
             LAMBDA r :
             New(r.h, M([key \in DOMAIN Val(t) |->
                          r.slots[CHOOSE i \in 1..Len(ks) : ks[i] = key]]))))

AllocSeq(h, ts, acc) ==
    IF ts = <<>> THEN [h |-> h, slots |-> acc]
    ELSE Let(Alloc(h, Head(ts)), LAMBDA r :
         Strict(r, AllocSeq(r.h, Tail(ts), Append(acc, r.s))))

\* the values a sequence of slots denotes
TreeSeq(h, slots) == [n \in 1..Len(slots) |-> Tree(h, slots[n])]

RECURSIVE Reach(_, _)
\* the heap objects reachable from a slot
Reach(h, s) ==
    IF Kind(s) # "ref" THEN {}
    ELSE {Val(s)} \cup UNION {Reach(h, c) : c \in Range(Val(h[Val(s)]))}

\* copy.deepcopy: an equal value built of fresh objects
deepcopy(h, s) == Alloc(h, Tree(h, s))

(***************************************************************************)
(* Results of the methods: the heap after the call, the returned slot, and *)
(* "none" or the exception raised.  A raise keeps the mutations done so    *)
(* far.                                                                    *)
(***************************************************************************)
Ok(h, s) == [h |-> h, s |-> s, err |-> "none"]

Raise(h, e) == [h |-> h, s |-> NoneV, err |-> e]

\* F of the result r of a call, unless the call raised
Bind(r, F(_)) == IF r.err # "none" THEN r ELSE F(r)

(***************************************************************************)
(* PolicyGen._array_merge.  def_dicts is kept as a sequence of             *)
(* [type |-> type, entry |-> default entry] in insertion order.            *)
(***************************************************************************)
HasDefault(defs, t) == \E j \in 1..Len(defs) : defs[j].type = t

DefaultFor(defs, t) == defs[CHOOSE j \in 1..Len(defs) : defs[j].type = t].entry

\* del def_dicts[t]
consume_keep_mutant(defs, t) == defs

consume(defs, t) == SelectSeq(defs, LAMBDA d : d.type # t)

\* for k, v in def_dicts[t].items(): if k not in i: i[k] = v
fill_overwrite_mutant(ifields, dfields) == dfields @@ ifields

fill_missing(ifields, dfields) == ifields @@ dfields

\* if path == ['actions'] and k == 'notify': continue
suppress(path, t) == path = <<"actions">> /\ t = S("notify")

\* v in update
in_update_never_mutant(h, v, update) == FALSE

in_update(h, v, update) ==
    Tree(h, v) \in {Tree(h, e) : e \in Range(Cells(h, update))}

\* the "type" of a dict entry, by structure; NoneV when it has none
TypeOf(h, v) == Tree(h, DictGet(h, v, "type"))

RECURSIVE find_defaults(_, _, _, _, _)
\* the loop "for v in base": non-dict entries are appended to update unless
\* already in it, dict entries are registered by type
find_defaults(h, base, update, n, defs) ==
    IF n > Len(Cells(h, base)) THEN [h |-> h, defs |-> defs, err |-> "none"]
    ELSE Let(Cells(h, base)[n], LAMBDA v :
         IF ~IsDict(h, v)
         THEN IF in_update(h, v, update)
              THEN find_defaults(h, base, update, n + 1, defs)
              ELSE Let(ListAppend(h, update, v), LAMBDA h2 :
                   Strict(h2, find_defaults(h2, base, update, n + 1, defs)))
         ELSE Let(TypeOf(h, v), LAMBDA t :
              IF t = NoneV
              THEN [h |-> h, defs |-> defs, err |-> "RuntimeError"]
              ELSE IF Kind(t) # "str"
              \* "t in def_dicts" on a list or dict: unhashable type
              THEN [h |-> h, defs |-> defs, err |-> "TypeError"]
              ELSE IF HasDefault(defs, t)
              THEN [h |-> h, defs |-> defs, err |-> "RuntimeError"]
              ELSE find_defaults(h, base, update, n + 1,
                                 Append(defs, [type |-> t, entry |-> v]))))

\* i takes from the default d the fields it lacks
fill(h, i, d) ==
    [h EXCEPT ![Val(i)] = M(fill_missing(Fields(h, i), Fields(h, d)))]

RECURSIVE do_updates(_, _, _, _)
\* the loop "for i in update": the first entry of a type takes the fields it
\* lacks from the default of that type, which is then removed
do_updates(h, update, n, defs) ==
    IF n > Len(Cells(h, update)) THEN [h |-> h, defs |-> defs, err |-> "none"]
    ELSE Let(Cells(h, update)[n], LAMBDA i :
         IF ~IsDict(h, i) THEN do_updates(h, update, n + 1, defs)
         ELSE Let(TypeOf(h, i), LAMBDA t :
              IF t = NoneV THEN do_updates(h, update, n + 1, defs)
              ELSE IF Kind(t) # "str"
              THEN [h |-> h, defs |-> defs, err |-> "TypeError"]
              ELSE IF ~HasDefault(defs, t)
              THEN do_updates(h, update, n + 1, defs)
              ELSE Let(fill(h, i, DefaultFor(defs, t)), LAMBDA h2 :
                   Strict(h2, do_updates(h2, update, n + 1,
                                         consume(defs, t))))))

RECURSIVE add_remaining(_, _, _, _)
\* the loop "for k, v in def_dicts.items()": append what was not consumed
add_remaining(h, update, defs, path) ==
    IF defs = <<>> THEN h
    ELSE IF suppress(path, defs[1].type)
    THEN add_remaining(h, update, Tail(defs), path)
    ELSE Let(ListAppend(h, update, defs[1].entry), LAMBDA h2 :
         Strict(h2, add_remaining(h2, update, Tail(defs), path)))

\* update is a list (the caller tested isinstance(v, type([])))
array_merge(h, base, update, path) ==
    IF ~IsList(h, base) THEN Raise(h, "RuntimeError")
    ELSE Let(find_defaults(h, base, update, 1, <<>>), LAMBDA c :
         IF c.err # "none" THEN Raise(c.h, c.err)
         ELSE Let(do_updates(c.h, update, 1, c.defs), LAMBDA u :
              IF u.err # "none" THEN Raise(u.h, u.err)
              ELSE Ok(add_remaining(u.h, update, u.defs, path), update)))

(***************************************************************************)
(* PolicyGen._merge_conf: merge update (a dict) into base, in place.       *)
(***************************************************************************)
\* v.get('type', 'periodic') != 'periodic'
not_periodic(h, v) ==
    (IF HasKey(h, v, "type") THEN Tree(h, Fields(h, v)["type"])
     ELSE S("periodic")) # S("periodic")

\* remove actions if only specified in base (defaults); at the root base is
\* the copy of the defaults document, a dict
only_in_base_never_mutant(h, base, update, path) == FALSE

only_in_base(h, base, update, path) ==
    /\ path = <<>>
    /\ IsDict(h, base)
    /\ HasKey(h, base, "actions")
    /\ ~HasKey(h, update, "actions")

RECURSIVE merge_conf(_, _, _, _), merge_keys(_, _, _, _, _),
          merge_key(_, _, _, _, _)
\* one iteration of "for k, v in update.items()", v being update[key]
merge_value(h, base, key, v, kpath) ==
    IF kpath = <<"mode">> /\ ~IsDict(h, v)
    \* v.get on a str or a list
    THEN Raise(h, "AttributeError")
    ELSE IF ~IsDict(h, base)
    \* base is a str or a list here (update put a dict where base has
    \* none): base[k] = ... and base[k] both raise
    THEN Raise(h, "TypeError")
    ELSE IF kpath = <<"mode">> /\ not_periodic(h, v)
    THEN Ok(DictSet(h, base, key, v), base)
    ELSE IF ~HasKey(h, base, key)
    THEN Ok(DictSet(h, base, key, v), base)
    ELSE IF IsList(h, v)
    THEN Bind(array_merge(h, Fields(h, base)[key], v, kpath),
              LAMBDA r : Ok(DictSet(r.h, base, key, r.s), base))
    ELSE IF IsDict(h, v)
    THEN Bind(merge_conf(h, Fields(h, base)[key], v, kpath),
              LAMBDA r : Ok(DictSet(r.h, base, key, r.s), base))
    ELSE Ok(DictSet(h, base, key, v), base)

merge_key(h, base, update, key, path) ==
    merge_value(h, base, key, Fields(h, update)[key], Append(path, key))

merge_keys(h, base, update, keys, path) ==
    IF keys = <<>> THEN Ok(h, base)
    ELSE Bind(merge_key(h, base, update, Head(keys), path),
              LAMBDA r : merge_keys(r.h, base, update, Tail(keys), path))

merge_conf(h, base, update, path) ==
    Bind(merge_keys(h, base, update,
                    SetToSeq(DOMAIN Fields(h, update)), path),
         LAMBDA r :
         IF only_in_base(r.h, base, update, path)
         THEN Ok(DictDel(r.h, base, "actions"), base)
         ELSE Ok(r.h, base))

(***************************************************************************)
(* PolicyGen._add_always_notify.  notify is self._config.always_notify: a  *)
(* reference to the configured dict, or NoneV when the configuration has   *)
(* no such attribute (AttributeError: conf is returned as it is).          *)
(***************************************************************************)
\* action is a notify dict with the transport of desired
matches(h, a, desired) ==
    /\ IsDict(h, a)
    /\ TypeOf(h, a) = S("notify")
    /\ (IF HasKey(h, a, "transport")
        THEN Tree(h, Fields(h, a)["transport"]) ELSE M(<<>>))
            = Tree(h, Fields(h, desired)["transport"])

\* the first action that matches, or 0 (added stays False)
last_match_mutant(h, actions, desired) ==
    IF \E n \in 1..Len(Cells(h, actions)) :
            matches(h, Cells(h, actions)[n], desired)
    THEN CHOOSE n \in 1..Len(Cells(h, actions)) :
            /\ matches(h, Cells(h, actions)[n], desired)
            /\ \A m \in (n + 1)..Len(Cells(h, actions)) :
                    ~matches(h, Cells(h, actions)[m], desired)
    ELSE 0

first_match(h, actions, desired) ==
    IF \E n \in 1..Len(Cells(h, actions)) :
            matches(h, Cells(h, actions)[n], desired)
    THEN CHOOSE n \in 1..Len(Cells(h, actions)) :
            /\ matches(h, Cells(h, actions)[n], desired)
            /\ \A m \in 1..(n - 1) : ~matches(h, Cells(h, actions)[m], desired)
    ELSE 0

RECURSIVE add_recipients(_, _, _)
\* for to_addr in desired['to']: if to_addr not in action['to']: append
add_recipients(h, to, addrs) ==
    IF addrs = <<>> THEN h
    ELSE IF Tree(h, Head(addrs)) \in {Tree(h, e) : e \in Range(Cells(h, to))}
    THEN add_recipients(h, to, Tail(addrs))
    ELSE Let(ListAppend(h, to, Head(addrs)), LAMBDA h2 :
         Strict(h2, add_recipients(h2, to, Tail(addrs))))

\* if 'to' not in action: action['to'] = []
ensure_to(h, a) ==
    IF HasKey(h, a, "to") THEN h
    ELSE Let(New(h, L(<<>>)), LAMBDA fresh : DictSet(fresh.h, a, "to", fresh.s))

\* lines 428-433: the matching action a takes the desired recipients.  Both
\* 'to' values are lists in every input of the model; any other shape is
\* cut off as a TypeError
union_recipients(h, conf, a, desired) ==
    IF ~HasKey(h, desired, "to") THEN Raise(h, "KeyError")
    ELSE IF ~IsList(h, Fields(h, desired)["to"])
            \/ ~IsList(h, Fields(h, a)["to"])
    THEN Raise(h, "TypeError")
    ELSE Ok(add_recipients(h, Fields(h, a)["to"],
                           Cells(h, Fields(h, desired)["to"])), conf)

\* lines 419-437, desired['type'] being set
scan_actions(h, conf, actions, desired) ==
    IF ~IsList(h, actions)
    \* no element of a str or of a dict's keys is a dict, and neither has
    \* append
    THEN Raise(h, "AttributeError")
    ELSE IF /\ ~HasKey(h, desired, "transport")
            /\ \E n \in 1..Len(Cells(h, actions)) :
                /\ IsDict(h, Cells(h, actions)[n])
                /\ TypeOf(h, Cells(h, actions)[n]) = S("notify")
    THEN Raise(h, "KeyError")
    ELSE Let(first_match(h, actions, desired), LAMBDA n :
         IF n = 0 THEN Ok(ListAppend(h, actions, desired), conf)
         ELSE Let(ensure_to(h, Cells(h, actions)[n]), LAMBDA h2 :
              union_recipients(h2, conf, Cells(h2, actions)[n], desired)))

add_always_notify(h, conf, notify) ==
    IF notify = NoneV THEN Ok(h, conf)
    ELSE Let(DictSet(h, notify, "type", S("notify")), LAMBDA h1 :
         scan_actions(h1, conf, Fields(h1, conf)["actions"], notify))

(***************************************************************************)
(* PolicyGen._apply_defaults.  defaults and policy are dicts on the heap.  *)
(***************************************************************************)
\* d = deepcopy(defaults)
copy_alias_mutant(h, defaults) == [h |-> h, s |-> defaults]

copy_defaults(h, defaults) == deepcopy(h, defaults)

\* conf['mode']['tags']['Component'] = policy['name']
component_keep_mutant(h, tags, policy) ==
    IF HasKey(h, tags, "Component") THEN h
    ELSE DictSet(h, tags, "Component", Fields(h, policy)["name"])

set_component(h, tags, policy) ==
    DictSet(h, tags, "Component", Fields(h, policy)["name"])

\* if type == 'periodic' and 'tags' not in conf['mode']:
\*     conf['mode']['tags'] = {}
ensure_tags(h, mode) ==
    IF Tree(h, Fields(h, mode)["type"]) = S("periodic")
       /\ ~HasKey(h, mode, "tags")
    THEN Let(New(h, M(<<>>)), LAMBDA fresh :
             DictSet(fresh.h, mode, "tags", fresh.s))
    ELSE h

\* conf['mode']['tags'].update(defaults.get('mode', {}).get('tags', {}))
update_tags(h, tags, dtags) ==
    IF dtags = NoneV THEN h
    ELSE [h EXCEPT ![Val(tags)] = M(Fields(h, dtags) @@ Fields(h, tags))]

\* lines 392-396, tags being conf['mode']['tags']
tag_from(h, conf, tags, dmode, policy) ==
    IF dmode # NoneV /\ ~IsDict(h, dmode) THEN Raise(h, "AttributeError")
    ELSE IF ~IsDict(h, tags) THEN Raise(h, "AttributeError")
    ELSE Let(IF dmode = NoneV THEN NoneV ELSE DictGet(h, dmode, "tags"),
             LAMBDA dtags :
             IF dtags # NoneV /\ ~IsDict(h, dtags)
             THEN Raise(h, "ValueError")
             ELSE Ok(set_component(update_tags(h, tags, dtags), tags,
                                   policy), conf))

\* lines 389-396: the Component tag of the Lambda function
tag_component(h, conf, defaults, policy) ==
    IF ~HasKey(h, conf, "mode") THEN Raise(h, "KeyError")
    ELSE Let(Fields(h, conf)["mode"], LAMBDA mode :
         IF ~IsDict(h, mode) THEN Raise(h, "TypeError")
         ELSE IF ~HasKey(h, mode, "type") THEN Raise(h, "KeyError")
         ELSE Let(ensure_tags(h, mode), LAMBDA h1 :
              IF ~HasKey(h1, mode, "tags") THEN Ok(h1, conf)
              ELSE tag_from(h1, conf, Fields(h1, mode)["tags"],
                            DictGet(h1, defaults, "mode"), policy)))

\* if 'actions' not in conf: conf['actions'] = []
ensure_actions(h, conf) ==
    IF HasKey(h, conf, "actions") THEN h
    ELSE Let(New(h, L(<<>>)), LAMBDA fresh :
             DictSet(fresh.h, conf, "actions", fresh.s))

apply_defaults(h, defaults, policy, notify) ==
    Let(copy_defaults(h, defaults), LAMBDA d :
    IF ~HasKey(d.h, policy, "name") THEN Raise(d.h, "KeyError")
    ELSE Bind(merge_conf(d.h, d.s, policy, <<>>), LAMBDA m :
         Bind(tag_component(m.h, m.s, defaults, policy), LAMBDA t :
         add_always_notify(ensure_actions(t.h, t.s), t.s, notify))))

(***************************************************************************)
(* The sanity/safety rules.  They only read the policy, so they are given  *)
(* its tree.  A rule yields "True", "False" or the exception it raises.    *)
(***************************************************************************)
HasField(t, key) == Kind(t) = "map" /\ key \in DOMAIN Val(t)

\* d.get(key, '') for a dict tree
GetOrEmpty(t, key) == IF key \in DOMAIN Val(t) THEN Val(t)[key] ELSE S("")

RECURSIVE MentionsMarkedForOp(_)
\* "'type': 'marked-for-op'" in str(x): some dict inside x, at any depth,
\* has the key type with the value marked-for-op
MentionsMarkedForOp(t) ==
    IF Kind(t) = "map"
    THEN \/ (HasField(t, "type") /\ Val(t)["type"] = S("marked-for-op"))
         \/ \E key \in DOMAIN Val(t) : MentionsMarkedForOp(Val(t)[key])
    ELSE IF Kind(t) = "seq"
    THEN \E n \in 1..Len(Val(t)) : MentionsMarkedForOp(Val(t)[n])
    ELSE FALSE

check_policy_marked_for_op_first(policy) ==
    IF ~HasField(policy, "filters") THEN "True"
    ELSE LET filters == Val(policy)["filters"] IN
         IF ~MentionsMarkedForOp(filters) THEN "True"
         \* policy['filters'][0] on a dict
         ELSE IF Kind(filters) = "map" THEN "KeyError"
         \* .get on a str or a list is the AttributeError the code catches
         ELSE IF Kind(Val(filters)[1]) = "map"
                 /\ GetOrEmpty(Val(filters)[1], "type") = S("marked-for-op")
         THEN "True"
         ELSE "False"

\* the dict actions of type mark-for-op, in order
MarkActions(policy) ==
    IF Kind(Val(policy)["actions"]) # "seq" THEN <<>>
    ELSE SelectSeq(Val(Val(policy)["actions"]),
            LAMBDA a : /\ Kind(a) = "map"
                       /\ GetOrEmpty(a, "type") = S("mark-for-op"))

\* {'tag:%s' % t: 'absent'}
tag_filter(t) == M(("tag:" \o Val(t)) :> S("absent"))

\* tag_filter not in policy['filters']
lacks_tag_filter(filters, t) ==
    \* a tag that is no str formats to a text no filter key of the model has
    Kind(t) # "str" \/ tag_filter(t) \notin Range(Val(filters))

check_policy_mark_but_no_tag_filter(policy) ==
    IF ~HasField(policy, "filters") THEN "True"
    ELSE IF ~HasField(policy, "actions") THEN "True"
    ELSE LET marks == MarkActions(policy)
             filters == Val(policy)["filters"]
         IN  \* mark_tags.append(a['tag'])
             IF \E n \in 1..Len(marks) : ~HasField(marks[n], "tag")
             THEN "KeyError"
             ELSE IF marks = <<>> THEN "True"
             \* a dict "in" a dict or a str
             ELSE IF Kind(filters) # "seq" THEN "TypeError"
             ELSE IF \E n \in 1..Len(marks) :
                        lacks_tag_filter(filters, Val(marks[n])["tag"])
             THEN "False"
             ELSE "True"

OpSuffix == ": {op}@{action_date}"

\* the texts a mark-for-op message of the model starts with
MessagePrefixes == {"", "please delete", "Will delete"}

\* s.endswith(': {op}@{action_date}')
endswith_op(s) == \E pre \in MessagePrefixes : s = pre \o OpSuffix

check_policy_mark_for_op_bad_message(policy) ==
    IF ~HasField(policy, "actions") THEN "True"
    ELSE LET marks == MarkActions(policy) IN
         \* endswith on a list or a dict
         IF \E n \in 1..Len(marks) :
                /\ HasField(marks[n], "message")
                /\ Kind(Val(marks[n])["message"]) # "str"
         THEN "AttributeError"
         ELSE IF \E n \in 1..Len(marks) :
                    /\ HasField(marks[n], "message")
                    /\ ~endswith_op(Val(Val(marks[n])["message"]))
         THEN "False"
         ELSE "True"

(***************************************************************************)
(* strip_doc.  A docstring is a sequence of tokens, each a word or a run   *)
(* of whitespace; the result is the words joined by single blanks.         *)
(***************************************************************************)
IsWhitespace(tok) ==
    tok \in {" ", "\n        "}

RECURSIVE JoinWords(_)
JoinWords(ws) ==
    IF ws = <<>> THEN ""
    ELSE IF Len(ws) = 1 THEN ws[1]
    ELSE ws[1] \o " " \o JoinWords(Tail(ws))

strip_doc(doc) == JoinWords(SelectSeq(doc, LAMBDA tok : ~IsWhitespace(tok)))

Doc_mark_but_no_tag_filter ==
    <<"\n        ", "Policy", " ", "performs", " ", "a", " ", "mark", " ",
      "action,", " ", "but", " ", "does", " ", "not", " ", "filter", " ",
      "out", " ", "resources", " ", "already", "\n        ", "marked", " ",
      "with", " ", "that", " ", "tag.", "\n        ">>

Doc_mark_for_op_bad_message ==
    <<"\n        ", "mark-for-op", " ", "action", " ", "has", " ", "message",
      " ", "that", " ", "does", " ", "not", " ", "end", " ", "with",
      "\n        ", "\": {op}@{action_date}\"", " ", "(won't", " ", "be",
      " ", "parsed", " ", "by", " ", "c7n", " ", "and", " ", "will", " ",
      "be", " ", "ignored)", "\n        ">>

Doc_marked_for_op_first ==
    <<"\n        ", "Policy", " ", "includes", " ", "a", " ",
      "marked-for-op", " ", "filter,", " ", "but", " ", "it", " ", "is", " ",
      "not", " ", "the", " ", "first", " ", "filter.", "\n        ">>

\* the methods named _check_policy_*, in the order of dir(self)
PolicyChecks == <<"mark_but_no_tag_filter", "mark_for_op_bad_message",
                  "marked_for_op_first">>

chk(rule, policy) ==
    CASE rule = "mark_but_no_tag_filter" ->
            check_policy_mark_but_no_tag_filter(policy)
      [] rule = "mark_for_op_bad_message" ->
            check_policy_mark_for_op_bad_message(policy)
      [] rule = "marked_for_op_first" ->
            check_policy_marked_for_op_first(policy)

chk_doc(rule) ==
    CASE rule = "mark_but_no_tag_filter" -> Doc_mark_but_no_tag_filter
      [] rule = "mark_for_op_bad_message" -> Doc_mark_for_op_bad_message
      [] rule = "marked_for_op_first" -> Doc_marked_for_op_first

(***************************************************************************)
(* PolicyGen._check_policies.  failures maps a policy name to the          *)
(* descriptions of the rules it failed, in order; evaluated records each   *)
(* call chk(pol) as <<index of pol, rule>>.  status is "ok", or            *)
(* "SystemExit" when failures is not empty, or the exception of a rule.    *)
(***************************************************************************)
\* failures[pol['name']].append(strip_doc(chk))
record_failure(failures, name, rule) ==
    IF name \in DOMAIN failures
    THEN [failures EXCEPT ![name] = Append(@, strip_doc(chk_doc(rule)))]
    ELSE (name :> <<strip_doc(chk_doc(rule))>>) @@ failures

\* the nested loops, as one loop over the pairs (policy, rule) in order
RECURSIVE check_loop(_, _, _, _)
check_loop(policies, n, failures, evaluated) ==
    IF n > Len(policies) * Len(PolicyChecks)
    THEN [failures |-> failures, evaluated |-> evaluated,
          status |-> IF DOMAIN failures # {} THEN "SystemExit" ELSE "ok"]
    ELSE LET pi == ((n - 1) \div Len(PolicyChecks)) + 1
             rule == PolicyChecks[((n - 1) % Len(PolicyChecks)) + 1]
             pol == policies[pi]
             verdict == chk(rule, pol)
             ev == evaluated \cup {<<pi, rule>>}
         IN  IF verdict = "True"
             THEN check_loop(policies, n + 1, failures, ev)
             ELSE IF verdict = "False"
             THEN check_loop(policies, n + 1,
                     record_failure(failures, Val(Val(pol)["name"]), rule), ev)
             ELSE [failures |-> failures, evaluated |-> ev,
                   status |-> verdict]

check_policies(policies) == check_loop(policies, 1, <<>>, {})

(***************************************************************************)
(* PolicyGen._generate_cleanup_policies: the two policies that look for    *)
(* orphaned Lambda functions and CloudWatch Event rules.  policies is the  *)
(* sequence of the (copied) policies; only their names are read.           *)
(***************************************************************************)
value_filter(key, op, value) ==
    M([type |-> S("value"), key |-> S(key), op |-> S(op),
       value |-> S(value)])

notify_action(violation, subject) ==
    M([type |-> S("notify"), violation_desc |-> S(violation),
       action_desc |-> S("and should probably be deleted"),
       subject |-> S(subject),
       to |-> L(<<S("MAN-ReleaseEngineering@manheim.com")>>)])

\* 'custodian-%s' % name
custodian_name(name) == "custodian-" \o name

lcleanup_base ==
    <<M(("tag:Project") :> S("cloud-custodian")),
      M(("tag:Component") :> S("present")),
      value_filter("tag:Component", "ne", "c7n-cleanup-lambda"),
      value_filter("tag:Component", "ne", "c7n-cleanup-cwe")>>

cwecleanup_base ==
    <<value_filter("Name", "glob", "custodian-*"),
      value_filter("Name", "ne", "custodian-c7n-cleanup-lambda"),
      value_filter("Name", "ne", "custodian-c7n-cleanup-cwe")>>

\* the filters appended by "for p in policies"
lambda_filters_prefixed_mutant(policies) ==
    [n \in 1..Len(policies) |->
        value_filter("tag:Component", "ne",
                     custodian_name(Val(Val(policies[n])["name"])))]

lambda_filters(policies) ==
    [n \in 1..Len(policies) |->
        value_filter("tag:Component", "ne", Val(Val(policies[n])["name"]))]

cwe_filters(policies) ==
    [n \in 1..Len(policies) |->
        value_filter("Name", "ne",
                     custodian_name(Val(Val(policies[n])["name"])))]

generate_cleanup_policies(policies) ==
    <<M([name |-> S("c7n-cleanup-lambda"),
         comment |-> S("Find and alert on orphaned c7n Lambda functions"),
         resource |-> S("lambda"),
         actions |-> L(<<notify_action(
            "The following cloud-custodian Lambda functions appear to be orphaned",
            "[cloud-custodian {{ account }}] Orphaned cloud-custodian Lambda funcs in {{ region }}")>>),
         filters |-> L(lcleanup_base \o lambda_filters(policies))]),
      M([name |-> S("c7n-cleanup-cwe"),
         comment |-> S("Find and alert on orphaned c7n CloudWatch Events"),
         resource |-> S("event-rule"),
         actions |-> L(<<notify_action(
            "The following cloud-custodian CloudWatch Event rules appear to be orphaned",
            "[cloud-custodian {{ account }}] Orphaned cloud-custodian CW Event rules in {{ region }}")>>),
         filters |-> L(cwecleanup_base \o cwe_filters(policies))])>>

(***************************************************************************)
(* PolicyGen._generate_configs for one region.  policies maps the file     *)
(* stems to the policies read from disk.  The call works on a heap holding *)
(* the defaults, the configured always_notify and the policies; the        *)
(* policies and always_notify are handed back as the call leaves them.     *)
(***************************************************************************)
\* Python's order of the str values that name policies and files
Alphabetical ==
    <<"asg-tag", "c7n-cleanup-cwe", "c7n-cleanup-lambda", "defaults",
      "ec2-mark", "other", "zz-pol">>

Rank(name) == CHOOSE n \in 1..Len(Alphabetical) : Alphabetical[n] = name

\* sorted(policies.keys())
sorted_keys_descending_mutant(K) ==
    LET up == SelectSeq(Alphabetical, LAMBDA name : name \in K) IN
    [n \in 1..Len(up) |-> up[Len(up) + 1 - n]]

sorted_keys(K) == SelectSeq(Alphabetical, LAMBDA name : name \in K)

RECURSIVE apply_each(_, _, _, _, _)
\* result['policies'].append(self._apply_defaults(defaults, pol)), for each
apply_each(h, defaults, pols, notify, acc) ==
    IF pols = <<>> THEN [h |-> h, err |-> "none", confs |-> acc]
    ELSE Let(apply_defaults(h, defaults, Head(pols), notify), LAMBDA r :
         IF r.err # "none" THEN [h |-> r.h, err |-> r.err, confs |-> acc]
         ELSE apply_each(r.h, defaults, Tail(pols), notify, Append(acc, r.s)))

\* the documents the caller holds, as the call leaves them on heap h
After(h, policies, keys, pols, d, nf) ==
    [policies |-> [key \in DOMAIN policies |->
                    Tree(h, pols[CHOOSE n \in 1..Len(keys) : keys[n] = key])],
     defaults |-> Tree(h, d),
     notify |-> Tree(h, nf)]

Outcome(status, result, cleanup, report, after) ==
    [status |-> status, result |-> result, cleanup |-> cleanup,
     report |-> report, after |-> after]

\* lines 151-152, result being the values of result['policies']
checked(result, cleanup, after) ==
    Let(check_policies(result), LAMBDA v :
        Outcome(v.status, result, cleanup, v.failures, after))

\* lines 146-152, u being the outcome of the first loop
with_cleanup(u, cleanup, policies, keys, pols, d, nf) ==
    Let(AllocSeq(u.h, cleanup, <<>>), LAMBDA a3 :
    Let(apply_each(a3.h, d, a3.slots, nf, u.confs), LAMBDA c :
        IF c.err # "none"
        THEN Outcome(c.err, <<>>, cleanup, <<>>,
                     After(c.h, policies, keys, pols, d, nf))
        ELSE checked(TreeSeq(c.h, c.confs), cleanup,
                     After(c.h, policies, keys, pols, d, nf))))

\* lines 140-152 on a heap h that holds the defaults d, the always_notify
\* nf and the policies pols (in the order of keys)
generate_on(h, policies, keys, pols, d, nf) ==
    Let(apply_each(h, d, pols, nf, <<>>), LAMBDA u :
        IF u.err # "none"
        THEN Outcome(u.err, <<>>, <<>>, <<>>,
                     After(u.h, policies, keys, pols, d, nf))
        \* deepcopy(result['policies']) is handed over by value
        ELSE with_cleanup(u, generate_cleanup_policies(TreeSeq(u.h, u.confs)),
                          policies, keys, pols, d, nf))

\* what the call does up to and including self._check_policies
generate_checked(policies, defaults, notify) ==
    Let(sorted_keys(DOMAIN policies), LAMBDA keys :
    Let(Alloc(<<>>, defaults), LAMBDA a0 :
    Let(Alloc(a0.h, notify), LAMBDA a1 :
    Let(AllocSeq(a1.h, [n \in 1..Len(keys) |-> policies[keys[n]]], <<>>),
        LAMBDA a2 :
        generate_on(a2.h, policies, keys, a2.slots, a0.s, a1.s)))))

\* self._write_custodian_configs(result, region_name) follows the check
write_unchecked_mutant(g) == g.result # <<>>

writes_config(g) == g.status = "ok"

\* 'custodian_%s.yml' % region_name
custodian_file(region) == "custodian_" \o region \o ".yml"

(***************************************************************************)
(* State.                                                                  *)
(*   pc             where the program is                                   *)
(*   regions        self._config.regions, a sequence of region names       *)
(*   defaults       policies/defaults.yml                                  *)
(*   always_notify  self._config.always_notify, NoneV when not configured  *)
(*   files          the policy directories: files.common is                *)
(*                  all_accounts/common and files.regional[r] is the       *)
(*                  account's directory of region r, each a map from file  *)
(*                  stem to document (the other directories do not exist)  *)
(*   acct_conf      acct_configs[account_name]: region -> stem -> policy   *)
(*   rix            index of the region the second loop of run is at       *)
(*   emitted        file name -> what was handed to _write_file's caller:  *)
(*                  for custodian_<region>.yml the result dict given to     *)
(*                  _write_custodian_configs                               *)
(*   last           outcome of the last _generate_configs call             *)
(*   inp, out       argument and outcome of a method applied on its own    *)
(***************************************************************************)
VARIABLES pc, regions, defaults, always_notify, files, acct_conf, rix,
          emitted, last, inp, out

vars == <<pc, regions, defaults, always_notify, files, acct_conf, rix,
          emitted, last, inp, out>>

runvars == <<regions, defaults, always_notify, files, acct_conf, rix,
             emitted, last>>

\* the run is not part of the specifications of the single methods
NoRun ==
    /\ regions = <<>>
    /\ defaults = NoneV
    /\ always_notify = NoneV
    /\ files = NoneV
    /\ acct_conf = <<>>
    /\ rix = 0
    /\ emitted = <<>>
    /\ last = NoneV

(***************************************************************************)
(* Bounds and inputs of the compile run.                                   *)
(***************************************************************************)
MaxRegions == 2

MaxPolicies == 2

RegionNames == <<"us-east-1", "us-west-2", "eu-west-1", "ap-south-1">>

RunDefaults ==
    M([mode |-> M([type |-> S("periodic"),
                   tags |-> M([Project |-> S("cloud-custodian")])]),
       comment |-> S("managed by policygen"),
       actions |-> L(<<M([type |-> S("notify"),
                          to |-> L(<<S("resource-owner")>>)])>>)])

RunNotify ==
    M([transport |-> M([type |-> S("sqs")]), to |-> L(<<S("ops")>>)])

AsgTagGood ==
    M([name |-> S("asg-tag"), resource |-> S("asg"),
       filters |-> L(<<M(("tag:owner") :> S("absent"))>>),
       actions |-> L(<<M([type |-> S("tag"), key |-> S("owner")])>>)])

\* a list where the defaults hold a str: a shape error
AsgTagShape ==
    M([name |-> S("asg-tag"), resource |-> S("asg"),
       comment |-> L(<<S("tag"), S("asg")>>)])

Ec2MarkGood ==
    M([name |-> S("ec2-mark"), resource |-> S("ec2"),
       filters |-> L(<<M(("tag:expiry") :> S("absent"))>>),
       actions |-> L(<<M([type |-> S("mark-for-op"), tag |-> S("expiry"),
                          op |-> S("stop")])>>)])

\* marks without filtering out what is marked: fails validation
Ec2MarkUnfiltered ==
    M([name |-> S("ec2-mark"), resource |-> S("ec2"),
       filters |-> L(<<M([type |-> S("instance-age")])>>),
       actions |-> L(<<M([type |-> S("mark-for-op"), tag |-> S("expiry"),
                          op |-> S("stop")])>>)])

\* the file ec2-mark.yml holding a policy of another name
Ec2MarkMisnamed == M([name |-> S("other"), resource |-> S("ec2")])

\* a policy in a file named defaults.yml is exempt from the name check
ZzPolInDefaultsFile == M([name |-> S("zz-pol"), resource |-> S("s3")])

StemDocs ==
    [x \in {"asg-tag", "ec2-mark", "defaults"} |->
        CASE x = "asg-tag" -> {AsgTagGood, AsgTagShape}
          [] x = "ec2-mark" -> {Ec2MarkGood, Ec2MarkUnfiltered,
                                Ec2MarkMisnamed}
          [] x = "defaults" -> {ZzPolInDefaultsFile}]

AllDocs == UNION {StemDocs[x] : x \in DOMAIN StemDocs}

CommonMaps ==
    UNION {{f \in [K -> AllDocs] : \A x \in K : f[x] \in StemDocs[x]} :
            K \in {J \in SUBSET DOMAIN StemDocs :
                    Cardinality(J) <= MaxPolicies}}

RegionalMaps ==
    {<<>>} \cup {("ec2-mark" :> d) : d \in {Ec2MarkGood, Ec2MarkUnfiltered}}

(***************************************************************************)
(* PolicyGen.run.                                                          *)
(***************************************************************************)
RunInit ==
    /\ pc = "read"
    /\ \E n \in 1..MaxRegions : regions = SubSeq(RegionNames, 1, n)
    /\ defaults = RunDefaults
    /\ always_notify \in {NoneV, RunNotify}
    /\ \E c \in CommonMaps :
        \E rg \in [Range(regions) -> RegionalMaps] :
            files = [common |-> c, regional |-> rg]
    /\ acct_conf = <<>>
    /\ rix = 0
    /\ emitted = <<>>
    /\ last = NoneV
    /\ inp = NoneV
    /\ out = NoneV

\* _read_policies: the name in a file must be the file's stem
name_matches(stem, doc) ==
    stem = "defaults" \/ (HasField(doc, "name") /\ Val(doc)["name"] = S(stem))

\* lines 72-90: read the directories, layer the account over all_accounts
ReadPolicies ==
    /\ pc = "read"
    /\ IF /\ \A x \in DOMAIN files.common : name_matches(x, files.common[x])
          /\ \A r \in Range(regions) : \A x \in DOMAIN files.regional[r] :
                name_matches(x, files.regional[r][x])
       THEN /\ acct_conf' = [r \in Range(regions) |->
                                files.regional[r] @@ files.common]
            /\ rix' = 1
            /\ pc' = "generate"
            /\ last' = last
       ELSE /\ pc' = "aborted"
            /\ last' = [status |-> "RuntimeError"]
            /\ UNCHANGED <<acct_conf, rix>>
    /\ UNCHANGED <<regions, defaults, always_notify, files, emitted, inp, out>>

\* g being the outcome of _generate_configs for region rname
Generated(rname, g) ==
    /\ acct_conf' = [acct_conf EXCEPT ![rname] = g.after.policies]
    /\ defaults' = g.after.defaults
    /\ always_notify' = g.after.notify
    /\ last' = [status |-> g.status, region |-> rname,
                report |-> g.report, cleanup |-> g.cleanup]
    /\ emitted' = IF writes_config(g)
                  THEN (custodian_file(rname) :>
                            M([policies |-> L(g.result)])) @@ emitted
                  ELSE emitted
    /\ IF g.status # "ok"
       THEN pc' = "aborted" /\ rix' = rix
       ELSE IF rix = Len(regions)
       THEN pc' = "docs" /\ rix' = rix
       ELSE pc' = "generate" /\ rix' = rix + 1

\* lines 92-97: one round of "for rname in self._config.regions"
GenerateConfigs ==
    /\ pc = "generate"
    /\ Generated(regions[rix],
                 generate_checked(acct_conf[regions[rix]], defaults,
                                  always_notify))
    /\ UNCHANGED <<regions, files, inp, out>>

\* lines 98-101: the two documentation files
WriteDocs ==
    /\ pc = "docs"
    /\ emitted' = ("policies.rst" :> S("policies")) @@
                  ("regions.rst" :> S("regions")) @@ emitted
    /\ pc' = "done"
    /\ UNCHANGED <<regions, defaults, always_notify, files, acct_conf, rix,
                   last, inp, out>>

RunNext == ReadPolicies \/ GenerateConfigs \/ WriteDocs

SpecRun == RunInit /\ [][RunNext]_vars

(***************************************************************************)
(* Properties of the compile run.                                          *)
(***************************************************************************)
\* the regions whose custodian_<region>.yml has been emitted
EmittedRegions ==
    {n \in 1..Len(regions) : custodian_file(regions[n]) \in DOMAIN emitted}

\* the names of the policies of an emitted config, in order
PolicyNamesOf(config) ==
    LET pols == Val(Val(config)["policies"]) IN
    [n \in 1..Len(pols) |-> Val(Val(pols[n])["name"])]

\* C1 as stated: when the run is aborted by a failed validation or a shape
\* or identity error of some region, no compiled config has been emitted for
\* any region, the ones processed earlier included.
C1_NothingEmittedOnAbort == pc = "aborted" => EmittedRegions = {}

\* C1 amended: when the run is aborted in region number rix (0: while
\* reading), exactly the configs of the regions before it have been emitted;
\* none for the failed region, none for a later region, and no
\* documentation file.
C1_NoEmissionFromFailedRegionOn ==
    pc = "aborted" =>
        /\ EmittedRegions = {n \in 1..Len(regions) : n < rix}
        /\ "policies.rst" \notin DOMAIN emitted
        /\ "regions.rst" \notin DOMAIN emitted

\* validation fails in the second region, after the first was emitted
C1_Witness ==
    /\ pc = "aborted"
    /\ rix = 2
    /\ last.status = "SystemExit"
    /\ EmittedRegions = {1}

\* C3 as stated: the policies of every emitted config, the two cleanup
\* policies included, are in ascending order of policy name.
C3_AscendingNames ==
    \A n \in EmittedRegions :
        LET names == PolicyNamesOf(emitted[custodian_file(regions[n])]) IN
        \A i, j \in 1..Len(names) : i < j => Rank(names[i]) < Rank(names[j])

\* C3 amended: every emitted config holds the region's policies in ascending
\* order of the file stem they were read under (the policy's name, except
\* for a policy in a file named defaults.yml), followed by c7n-cleanup-lambda
\* and then c7n-cleanup-cwe.
C3_UserPoliciesByStemThenCleanup ==
    \A n \in EmittedRegions :
        LET names == PolicyNamesOf(emitted[custodian_file(regions[n])])
            conf == acct_conf[regions[n]]
            k == Len(names) - 2
        IN  /\ k = Cardinality(DOMAIN conf)
            /\ names[k + 1] = "c7n-cleanup-lambda"
            /\ names[k + 2] = "c7n-cleanup-cwe"
            /\ \E stems \in [1..k -> DOMAIN conf] :
                /\ \A i \in 1..k : Val(conf[stems[i]])["name"] = S(names[i])
                /\ \A i, j \in 1..k :
                    i < j => Rank(stems[i]) < Rank(stems[j])

\* a config of two user policies and the two cleanup policies was emitted
C3_Witness ==
    \E n \in EmittedRegions :
        Len(PolicyNamesOf(emitted[custodian_file(regions[n])])) = 4

\* the values of the not-equal value filters of a policy on a key
NeValues(policy, key) ==
    {Val(Val(f)["value"]) :
        f \in {g \in Range(Val(Val(policy)["filters"])) :
                /\ Kind(g) = "map"
                /\ DOMAIN Val(g) = {"type", "key", "op", "value"}
                /\ Val(g)["type"] = S("value")
                /\ Val(g)["key"] = S(key)
                /\ Val(g)["op"] = S("ne")}}

CleanupNames == {"c7n-cleanup-lambda", "c7n-cleanup-cwe"}

\* the names of the policies of the region the last call worked on
LastRegionNames ==
    {Val(Val(acct_conf[last.region][x])["name"]) :
        x \in DOMAIN acct_conf[last.region]}

CleanupGenerated == "cleanup" \in DOMAIN last /\ last.cleanup # <<>>

\* C8: the not-equal filters of the generated c7n-cleanup-lambda on
\* tag:Component carry exactly the names of the region's policies and the two
\* cleanup names, and those of c7n-cleanup-cwe on Name carry exactly
\* custodian-<n> for the same names.
C8_CleanupExcludesExactlyKnownNames ==
    CleanupGenerated =>
        LET known == LastRegionNames \cup CleanupNames IN
        /\ Val(last.cleanup[1])["name"] = S("c7n-cleanup-lambda")
        /\ Val(last.cleanup[2])["name"] = S("c7n-cleanup-cwe")
        /\ NeValues(last.cleanup[1], "tag:Component") = known
        /\ NeValues(last.cleanup[2], "Name")
            = {"custodian-" \o name : name \in known}
        /\ NeValues(last.cleanup[1], "Name") = {}
        /\ NeValues(last.cleanup[2], "tag:Component") = {}

\* cleanup policies were generated for a region of two policies
C8_Witness ==
    /\ CleanupGenerated
    /\ Cardinality(LastRegionNames) = 2

(***************************************************************************)
(* PolicyGen._check_policies and the three rules, applied on their own to  *)
(* lists of at most MaxPolicies policies.                                  *)
(***************************************************************************)
ChkGood ==
    M([name |-> S("ec2-mark"),
       filters |-> L(<<M(("tag:expiry") :> S("absent"))>>),
       actions |-> L(<<M([type |-> S("mark-for-op"), tag |-> S("expiry"),
                          message |-> S("Will delete" \o OpSuffix)])>>)])

\* marks, and its filters lack the tag filter
ChkUnfiltered ==
    M([name |-> S("ebs-mark"),
       filters |-> L(<<M([type |-> S("instance-age")])>>),
       actions |-> L(<<M([type |-> S("mark-for-op"),
                          tag |-> S("expiry")])>>)])

\* marks, and has no filters at all
ChkNoFilters ==
    M([name |-> S("rds-mark"),
       actions |-> L(<<M([type |-> S("mark-for-op"),
                          tag |-> S("expiry")])>>)])

\* a mark-for-op action that leaves the tag to c7n's default
ChkNoTag ==
    M([name |-> S("asg-mark"),
       filters |-> L(<<M(("tag:maid_status") :> S("absent"))>>),
       actions |-> L(<<M([type |-> S("mark-for-op"), op |-> S("stop")])>>)])

ChkBadMessage ==
    M([name |-> S("elb-mark"),
       filters |-> L(<<M(("tag:expiry") :> S("absent"))>>),
       actions |-> L(<<M([type |-> S("mark-for-op"), tag |-> S("expiry"),
                          message |-> S("please delete")])>>)])

\* fails two rules
ChkTwoFailures ==
    M([name |-> S("ebs-mark"),
       filters |-> L(<<M([type |-> S("instance-age")])>>),
       actions |-> L(<<M([type |-> S("mark-for-op"), tag |-> S("expiry"),
                          message |-> S("Will delete")])>>)])

ChkOpNotFirst ==
    M([name |-> S("ec2-stop"),
       filters |-> L(<<M(("tag:owner") :> S("absent")),
                       M([type |-> S("marked-for-op"), op |-> S("stop")])>>),
       actions |-> L(<<S("stop")>>)])

ChkOpFirst ==
    M([name |-> S("ec2-term"),
       filters |-> L(<<M([type |-> S("marked-for-op"),
                          op |-> S("terminate")])>>),
       actions |-> L(<<S("terminate")>>)])

ChkPlain == M([name |-> S("s3-tag"), resource |-> S("s3")])

ChkPolicies ==
    {ChkGood, ChkUnfiltered, ChkNoFilters, ChkNoTag, ChkBadMessage,
     ChkTwoFailures, ChkOpNotFirst, ChkOpFirst, ChkPlain}

ChkInit ==
    /\ pc = "idle"
    /\ NoRun
    /\ \E n \in 0..MaxPolicies : \E ps \in [1..n -> ChkPolicies] :
        inp = [policies |-> ps]
    /\ out = NoneV

\* self._check_policies(policies)
CheckPolicies ==
    /\ pc = "idle"
    /\ out' = check_policies(inp.policies)
    /\ pc' = "checked"
    /\ UNCHANGED <<inp, runvars>>

\* chk(pol), for one of the rules
CheckRule ==
    /\ pc = "idle"
    /\ Len(inp.policies) = 1
    /\ \E rule \in Range(PolicyChecks) :
        out' = [rule |-> rule, verdict |-> chk(rule, inp.policies[1])]
    /\ pc' = "rule"
    /\ UNCHANGED <<inp, runvars>>

ChkNext == CheckPolicies \/ CheckRule

SpecChk == ChkInit /\ [][ChkNext]_vars

\* the one-line description of a rule
RuleDescription(rule) ==
    CASE rule = "mark_but_no_tag_filter" ->
            "Policy performs a mark action, but does not filter out "
            \o "resources already marked with that tag."
      [] rule = "mark_for_op_bad_message" ->
            "mark-for-op action has message that does not end with "
            \o "\": {op}@{action_date}\" (won't be parsed by c7n and will "
            \o "be ignored)"
      [] rule = "marked_for_op_first" ->
            "Policy includes a marked-for-op filter, but it is not the "
            \o "first filter."

\* the pairs (policy name, rule description) of a failure report
ReportPairs(failures) ==
    UNION {{<<name, failures[name][i]>> : i \in 1..Len(failures[name])} :
            name \in DOMAIN failures}

\* the pairs (policy name, rule description) for which the rule is false
FailedPairs(policies) ==
    {<<Val(Val(policies[x[1]])["name"]), RuleDescription(x[2])>> :
        x \in {y \in (1..Len(policies)) \X Range(PolicyChecks) :
                chk(y[2], policies[y[1]]) = "False"}}

\* C2 as stated: when validation has ended, every rule has been evaluated
\* against every policy, the failure report holds exactly the pairs (policy
\* name, rule description) for which the rule returned false, and the run is
\* aborted if and only if the report is not empty.
C2_ExhaustiveNeverFailFast ==
    pc = "checked" =>
        /\ out.evaluated = (1..Len(inp.policies)) \X Range(PolicyChecks)
        /\ ReportPairs(out.failures) = FailedPairs(inp.policies)
        /\ (out.status # "ok") <=> (DOMAIN out.failures # {})

\* the tags of the mark-for-op actions of a policy
MarkTags(policy) ==
    IF ~HasField(policy, "actions") \/ Kind(Val(policy)["actions"]) # "seq"
    THEN {}
    ELSE {Val(a)["tag"] :
            a \in {b \in Range(Val(Val(policy)["actions"])) :
                    /\ Kind(b) = "map"
                    /\ HasField(b, "type")
                    /\ Val(b)["type"] = S("mark-for-op")
                    /\ HasField(b, "tag")}}

\* the filters of a policy, none when it has no filters key
PolicyFilters(policy) ==
    IF ~HasField(policy, "filters") \/ Kind(Val(policy)["filters"]) # "seq"
    THEN {}
    ELSE Range(Val(Val(policy)["filters"]))

\* C10 as stated: the rule mark-but-no-tag-filter passes if and only if, for
\* every mark-for-op action with tag t, the policy's filters contain the
\* filter {tag:t: absent}; a policy with such an action and no filters fails.
C10_PassesIffEveryMarkTagFiltered ==
    (pc = "rule" /\ out.rule = "mark_but_no_tag_filter") =>
        (out.verdict = "True" <=>
            \A t \in MarkTags(inp.policies[1]) :
                M(("tag:" \o Val(t)) :> S("absent"))
                    \in PolicyFilters(inp.policies[1]))

(***************************************************************************)
(* PolicyGen._apply_defaults, applied on its own to a defaults document, a *)
(* policy and a configured always_notify, each built of fresh objects.     *)
(***************************************************************************)
DefComponent ==
    M([mode |-> M([type |-> S("periodic"),
                   tags |-> M([Component |-> S("dflt"),
                               Env |-> S("prod")])]),
       filters |-> L(<<M([type |-> S("value"), key |-> S("tag:skip"),
                          value |-> S("absent")])>>),
       actions |-> L(<<M([type |-> S("notify"),
                          to |-> L(<<S("resource-owner")>>)])>>)])

DefNoMode == M([comment |-> S("managed by policygen")])

DefNoTags ==
    M([mode |-> M([type |-> S("periodic"), schedule |-> S("rate(1 day)")]),
       filters |-> L(<<S("alive"), M([type |-> S("value"),
                                      key |-> S("tag:skip")])>>),
       actions |-> L(<<M([type |-> S("notify"), subject |-> S("c7n"),
                          to |-> L(<<S("resource-owner")>>)])>>)])

\* a tag whose value is a list
DefListTag ==
    M([mode |-> M([type |-> S("periodic"),
                   tags |-> M([Owners |-> L(<<S("ops")>>)])])])

\* a notify action and an action of another type
DefTwoActions ==
    M([mode |-> M([type |-> S("periodic")]),
       actions |-> L(<<M([type |-> S("notify"),
                          to |-> L(<<S("resource-owner")>>)]),
                       M([type |-> S("tag"), key |-> S("managed")])>>)])

DefDefaults ==
    {RunDefaults, DefComponent, DefNoMode, DefNoTags, DefListTag,
     DefTwoActions}

PolBare == M([name |-> S("p1"), resource |-> S("ec2")])

PolPeriodicTags ==
    M([name |-> S("p2"), resource |-> S("ec2"),
       mode |-> M([type |-> S("periodic"),
                   tags |-> M([Component |-> S("mine"),
                               Env |-> S("dev")])])])

PolTrail ==
    M([name |-> S("p3"), resource |-> S("ec2"),
       mode |-> M([type |-> S("cloudtrail"),
                   events |-> L(<<S("RunInstances")>>)])])

PolTrailTags ==
    M([name |-> S("p4"), resource |-> S("ec2"),
       mode |-> M([type |-> S("cloudtrail"),
                   tags |-> M([Owner |-> S("me")])])])

PolArrays ==
    M([name |-> S("p5"), resource |-> S("ec2"),
       filters |-> L(<<M([type |-> S("value")])>>),
       actions |-> L(<<M([type |-> S("notify"),
                          to |-> L(<<S("me")>>)])>>)])

\* a mode without a type
PolSchedule ==
    M([name |-> S("p6"), resource |-> S("ec2"),
       mode |-> M([schedule |-> S("rate(1 hour)")])])

PolNoName == M([resource |-> S("ec2")])

PolModeStr ==
    M([name |-> S("p7"), resource |-> S("ec2"), mode |-> S("periodic")])

PolEmptyActions ==
    M([name |-> S("p8"), resource |-> S("ec2"), actions |-> L(<<>>)])

PolTagsStr ==
    M([name |-> S("p9"), resource |-> S("ec2"),
       mode |-> M([type |-> S("periodic"), tags |-> S("none")])])

DefPolicies ==
    {PolBare, PolPeriodicTags, PolTrail, PolTrailTags, PolArrays,
     PolSchedule, PolNoName, AsgTagShape, PolModeStr, PolEmptyActions,
     PolTagsStr}

\* the actions of a configuration handed to _add_always_notify: at most
\* MaxActions of these
MaxActions == 2

SqsNotify ==
    M([type |-> S("notify"), transport |-> M([type |-> S("sqs")]),
       to |-> L(<<S("me"), S("ops")>>)])

SqsNotifyNoTo ==
    M([type |-> S("notify"), transport |-> M([type |-> S("sqs")])])

SnsNotify ==
    M([type |-> S("notify"), transport |-> M([type |-> S("sns")]),
       to |-> L(<<S("me")>>)])

PlainNotify == M([type |-> S("notify"), to |-> L(<<S("resource-owner")>>)])

\* no notify action, though it has the transport
SqsTag ==
    M([type |-> S("tag"), transport |-> M([type |-> S("sqs")]),
       to |-> L(<<S("me")>>)])

NotifyActions ==
    {S("stop"), SqsNotify, SqsNotifyNoTo, SnsNotify, PlainNotify, SqsTag}

NotifyConfs ==
    {M([name |-> S("p1"), resource |-> S("ec2"), actions |-> L(as)]) :
        as \in UNION {[1..n -> NotifyActions] : n \in 0..MaxActions}}

\* a configuration that names a recipient twice
RunNotifyTwice ==
    M([transport |-> M([type |-> S("sqs")]),
       to |-> L(<<S("ops"), S("sec"), S("ops")>>)])

NotifyConfigs == {NoneV, RunNotify, RunNotifyTwice}

DefInit ==
    /\ pc = "idle"
    /\ NoRun
    /\ inp \in [defaults : DefDefaults, policy : DefPolicies,
                notify : {NoneV, RunNotify}]
               \cup [conf : NotifyConfs, notify : NotifyConfigs]
    /\ out = NoneV

\* what the caller sees after the call r on the objects d, p and nf: the
\* exception, the returned document, the documents it passed in, and whether
\* the returned document has an object in common with them
observed(d, p, nf, r) ==
    [err |-> r.err,
     result |-> IF r.err = "none" THEN Tree(r.h, r.s) ELSE NoneV,
     defaults |-> Tree(r.h, d),
     policy |-> Tree(r.h, p),
     notify |-> Tree(r.h, nf),
     shares_defaults |->
        r.err = "none" /\ Reach(r.h, r.s) \cap Reach(r.h, d) # {},
     shares_policy |->
        r.err = "none" /\ Reach(r.h, r.s) \cap Reach(r.h, p) # {}]

\* self._apply_defaults(defaults, policy) on documents built of fresh objects
apply_on_fresh(defs, policy, notify) ==
    Let(Alloc(<<>>, defs), LAMBDA a0 :
    Let(Alloc(a0.h, notify), LAMBDA a1 :
    Let(Alloc(a1.h, policy), LAMBDA a2 :
        observed(a0.s, a2.s, a1.s,
                 apply_defaults(a2.h, a0.s, a2.s, a1.s)))))

ApplyDefaults ==
    /\ pc = "idle"
    /\ "policy" \in DOMAIN inp
    /\ out' = apply_on_fresh(inp.defaults, inp.policy, inp.notify)
    /\ pc' = "applied"
    /\ UNCHANGED <<inp, runvars>>

\* what the caller sees after the call r with the configured nf
notified(nf, r) ==
    [err |-> r.err,
     result |-> IF r.err = "none" THEN Tree(r.h, r.s) ELSE NoneV,
     notify |-> Tree(r.h, nf)]

\* self._add_always_notify(conf) on a conf built of fresh objects
notify_on_fresh(conf, notify) ==
    Let(Alloc(<<>>, notify), LAMBDA a0 :
    Let(Alloc(a0.h, conf), LAMBDA a1 :
        notified(a0.s, add_always_notify(a1.h, a1.s, a0.s))))

AddAlwaysNotify ==
    /\ pc = "idle"
    /\ "conf" \in DOMAIN inp
    /\ out' = notify_on_fresh(inp.conf, inp.notify)
    /\ pc' = "notified"
    /\ UNCHANGED <<inp, runvars>>

DefNext == ApplyDefaults \/ AddAlwaysNotify

SpecDef == DefInit /\ [][DefNext]_vars

\* C4 as stated: after the call, whether it returned or raised, the defaults
\* and the policy equal their values before the call, and the returned
\* document has no mutable object in common with either.
C4_BothInputsUnchanged ==
    pc = "applied" =>
        /\ out.defaults = inp.defaults
        /\ out.policy = inp.policy
        /\ ~out.shares_defaults
        /\ ~out.shares_policy

\* the values of the defaults' mode.tags are scalars
ScalarTags(d) ==
    (HasField(d, "mode") /\ HasField(Val(d)["mode"], "tags")
     /\ Kind(Val(Val(d)["mode"])["tags"]) = "map") =>
        \A key \in DOMAIN Val(Val(Val(d)["mode"])["tags"]) :
            Kind(Val(Val(Val(d)["mode"])["tags"])[key]) = "str"

\* C4 amended: after the call, whether it returned or raised, the defaults
\* equal their value before the call; and the returned document has no
\* mutable object in common with the defaults when the values of the
\* defaults' mode.tags are scalars.
C4_DefaultsUnchanged ==
    pc = "applied" =>
        /\ out.defaults = inp.defaults
        /\ ScalarTags(inp.defaults) => ~out.shares_defaults

\* the call returned, having filled the policy's own arrays from defaults
\* that hold arrays
C4_Witness ==
    /\ pc = "applied"
    /\ out.err = "none"
    /\ HasField(inp.defaults, "actions")
    /\ out.policy # inp.policy
    /\ out.shares_policy
    /\ out.defaults = inp.defaults

\* C9: when the call returns a document whose mode.type is periodic, that
\* document's mode.tags is a mapping whose Component is the policy's name.
C9_ComponentIsPolicyName ==
    (/\ pc = "applied"
     /\ out.err = "none"
     /\ HasField(Val(out.result)["mode"], "type")
     /\ Val(Val(out.result)["mode"])["type"] = S("periodic")) =>
        /\ HasField(Val(out.result)["mode"], "tags")
        /\ HasField(Val(Val(out.result)["mode"])["tags"], "Component")
        /\ Val(Val(Val(out.result)["mode"])["tags"])["Component"]
            = Val(inp.policy)["name"]

\* the defaults and the policy both declared a Component of their own
C9_Witness ==
    /\ pc = "applied"
    /\ out.err = "none"
    /\ inp.defaults = DefComponent
    /\ inp.policy = PolPeriodicTags
    /\ Val(Val(Val(out.result)["mode"])["tags"])["Component"] = S("p2")

\* the mode.tags of a document, an empty mapping when it declares none
TagsOf(doc) ==
    IF /\ HasField(doc, "mode")
       /\ HasField(Val(doc)["mode"], "tags")
       /\ Kind(Val(Val(doc)["mode"])["tags"]) = "map"
    THEN Val(Val(Val(doc)["mode"])["tags"])
    ELSE <<>>

\* the call returned a document whose mode.type is periodic
ReturnedPeriodic ==
    /\ pc = "applied"
    /\ out.err = "none"
    /\ HasField(Val(out.result)["mode"], "type")
    /\ Val(Val(out.result)["mode"])["type"] = S("periodic")

\* C11 as stated: in the result of a periodic policy, every tag other than
\* Component that the policy sets keeps the policy's value, and a tag has the
\* defaults' value only when the policy does not set it.
C11_PolicyTagsWin ==
    ReturnedPeriodic =>
        \A key \in (DOMAIN TagsOf(out.result)) \ {"Component"} :
            TagsOf(out.result)[key] =
                IF key \in DOMAIN TagsOf(inp.policy)
                THEN TagsOf(inp.policy)[key]
                ELSE TagsOf(inp.defaults)[key]

\* the policy declares a mode whose type is present and not periodic
DeclaresNonPeriodic(policy) ==
    /\ HasField(policy, "mode")
    /\ HasField(Val(policy)["mode"], "type")
    /\ Val(Val(policy)["mode"])["type"] # S("periodic")

\* C12 as stated: for a policy whose mode.type is present and not periodic,
\* the mode of the returned document is the mode the policy declared, with
\* nothing taken from the defaults' mode and no Component tag added.
C12_NonPeriodicModeKept ==
    (/\ pc = "applied"
     /\ out.err = "none"
     /\ DeclaresNonPeriodic(inp.policy)) =>
        Val(out.result)["mode"] = Val(inp.policy)["mode"]

\* the call returned and no always_notify is configured
ReturnedUnnotified ==
    /\ pc = "applied"
    /\ out.err = "none"
    /\ inp.notify = NoneV

\* the actions of the defaults that are not notify mappings, in order
OtherDefaultActions ==
    IF ~HasField(inp.defaults, "actions") THEN <<>>
    ELSE SelectSeq(Val(Val(inp.defaults)["actions"]),
            LAMBDA a : ~(HasField(a, "type") /\ Val(a)["type"] = S("notify")))

\* C13: with no always_notify configured, the document returned for a policy
\* that declares no actions key has the empty list as its actions, whatever
\* actions the defaults declare; a policy that declares an empty actions list
\* over defaults that declare actions gets the defaults' actions that are not
\* notify actions.
C13_NoActionsNotInherited ==
    ReturnedUnnotified =>
        /\ ~HasField(inp.policy, "actions") =>
            /\ HasField(out.result, "actions")
            /\ Val(out.result)["actions"] = L(<<>>)
        /\ (/\ HasField(inp.policy, "actions")
            /\ Val(inp.policy)["actions"] = L(<<>>)
            /\ HasField(inp.defaults, "actions")) =>
            /\ HasField(out.result, "actions")
            /\ Val(out.result)["actions"] = L(OtherDefaultActions)

\* a policy without actions was given defaults that declare two actions
C13_Witness ==
    /\ ReturnedUnnotified
    /\ inp.defaults = DefTwoActions
    /\ inp.policy = PolBare
    /\ Val(out.result)["actions"] = L(<<>>)

\* action a is a notify mapping with the transport of the configuration
\* (an action without transport has the empty mapping as its transport)
IsDesiredNotify(a) ==
    /\ HasField(a, "type")
    /\ Val(a)["type"] = S("notify")
    /\ (IF HasField(a, "transport") THEN Val(a)["transport"] ELSE M(<<>>))
        = Val(inp.notify)["transport"]

RECURSIVE WithMissing(_, _)
\* the list to, followed by those of addrs it lacks, each once
WithMissing(to, addrs) ==
    IF addrs = <<>> THEN to
    ELSE IF Head(addrs) \in Range(to) THEN WithMissing(to, Tail(addrs))
    ELSE WithMissing(Append(to, Head(addrs)), Tail(addrs))

\* action a with the configured recipients it lacks appended to its to list
WithRecipients(a) ==
    M(("to" :> L(WithMissing(IF HasField(a, "to") THEN Val(Val(a)["to"])
                             ELSE <<>>,
                             Val(Val(inp.notify)["to"]))))
      @@ Val(a))

\* the actions the claim describes for the actions as
InjectedActions(as) ==
    IF \E n \in 1..Len(as) : IsDesiredNotify(as[n])
    THEN [n \in 1..Len(as) |->
            IF IsDesiredNotify(as[n])
               /\ \A m \in 1..(n - 1) : ~IsDesiredNotify(as[m])
            THEN WithRecipients(as[n])
            ELSE as[n]]
    ELSE Append(as, M(("type" :> S("notify")) @@ Val(inp.notify)))

MaxLen == 2

TypedDefault ==
    M([type |-> S("value"), key |-> S("from-defaults"),
       op |-> S("from-defaults")])

TypedUpdate == M([type |-> S("value"), key |-> S("from-policy")])

TypedBare == M([type |-> S("value")])

NotifyEntry == M([type |-> S("notify"), subject |-> S("from-defaults")])

Untyped == M([key |-> S("from-policy")])

ArrayEntries ==
    {S("alive"), TypedDefault, TypedUpdate, TypedBare, NotifyEntry, Untyped}

\* the lists of at most MaxLen entries
Arrays == UNION {[1..n -> ArrayEntries] : n \in 0..MaxLen}

ArrayPaths == {<<"actions">>, <<"filters">>}

SelfModes ==
    {NoneV, S("periodic"),
     M([type |-> S("periodic"), tags |-> M([Env |-> S("dev")])]),
     M([type |-> S("cloudtrail"), events |-> L(<<S("RunInstances")>>)])}

SelfActions == {NoneV, L(<<NotifyEntry>>), L(<<TypedBare, TypedBare>>)}

\* a dict of the fields that are given (not NoneV)
Doc(fields) ==
    M([key \in {x \in DOMAIN fields : fields[x] # NoneV} |-> fields[key]])

SelfPolicies ==
    {Doc([name |-> S("p1"), filters |-> L(fs), actions |-> as, mode |-> m]) :
        fs \in Arrays, as \in SelfActions, m \in SelfModes}

\* the values a key has in base and in update: a str, a list, a dict and the
\* empty dict
MergeValues ==
    {S("managed"), L(<<S("alive")>>), M([text |-> S("managed")]), M(<<>>)}

MergeKeys == {"comment", "mode"}

MergeInit ==
    /\ pc = "idle"
    /\ NoRun
    /\ inp \in [op : {"array"}, base : Arrays, update : Arrays,
                path : ArrayPaths]
               \cup [op : {"self"}, policy : SelfPolicies]
               \cup [op : {"merge"}, key : MergeKeys, base : MergeValues,
                     update : MergeValues]
    /\ out = NoneV

\* what the caller sees after the array merge r
merged(r) ==
    [err |-> r.err,
     result |-> IF r.err = "none" THEN Tree(r.h, r.s) ELSE NoneV]

\* self._array_merge(base, update, policy_name, path) on fresh lists
array_merge_on_fresh(base, update, path) ==
    Let(Alloc(<<>>, L(base)), LAMBDA b :
    Let(Alloc(b.h, L(update)), LAMBDA u :
        merged(array_merge(u.h, b.s, u.s, path))))

ArrayMerge ==
    /\ pc = "idle"
    /\ inp.op = "array"
    /\ out' = array_merge_on_fresh(inp.base, inp.update, inp.path)
    /\ pc' = "array_merged"
    /\ UNCHANGED <<inp, runvars>>

\* what the caller sees after the merge r onto a copy of policy p
self_merged(p, r) ==
    [err |-> r.err,
     result |-> IF r.err = "none" THEN Tree(r.h, r.s) ELSE NoneV,
     policy |-> Tree(r.h, p)]

\* self._merge_conf(deepcopy(policy), policy, policy['name'], [])
merge_self_on_fresh(policy) ==
    Let(Alloc(<<>>, policy), LAMBDA p :
    Let(deepcopy(p.h, p.s), LAMBDA c :
        self_merged(p.s, merge_conf(c.h, c.s, p.s, <<>>))))

MergeSelf ==
    /\ pc = "idle"
    /\ inp.op = "self"
    /\ out' = merge_self_on_fresh(inp.policy)
    /\ pc' = "self_merged"
    /\ UNCHANGED <<inp, runvars>>

\* self._merge_conf(base, update, policy_name, []) on fresh documents
merge_on_fresh(base, update) ==
    Let(Alloc(<<>>, base), LAMBDA b :
    Let(Alloc(b.h, update), LAMBDA u :
        merged(merge_conf(u.h, b.s, u.s, <<>>))))

\* the merge of two documents that hold the one key inp.key
MergeConf ==
    /\ pc = "idle"
    /\ inp.op = "merge"
    /\ out' = merge_on_fresh(M(inp.key :> inp.base), M(inp.key :> inp.update))
    /\ pc' = "conf_merged"
    /\ UNCHANGED <<inp, runvars>>

MergeNext == ArrayMerge \/ MergeSelf \/ MergeConf

SpecMerge == MergeInit /\ [][MergeNext]_vars

\* entry e is a mapping with the type key t
HasType(e, t) == HasField(e, "type") /\ Val(e)["type"] = t

\* C5 as stated: merging a copy of any policy with the policy ends normally
\* and returns a document equal to the policy, whatever its arrays hold.
C5_SelfMergeAlwaysIdempotent ==
    pc = "self_merged" => out.err = "none" /\ out.result = inp.policy

\* no mapping entry of the array lacks a type, and no two have the same type
Mergeable(arr) ==
    /\ \A n \in 1..Len(arr) : Kind(arr[n]) = "map" => HasField(arr[n], "type")
    /\ \A n, m \in 1..Len(arr) :
        (n < m /\ Kind(arr[n]) = "map" /\ Kind(arr[m]) = "map") =>
            Val(arr[n])["type"] # Val(arr[m])["type"]

\* the arrays at the root of a policy
RootArrays(policy) ==
    {Val(Val(policy)[key]) :
        key \in {x \in DOMAIN Val(policy) : Kind(Val(policy)[x]) = "seq"}}

\* C5 amended: for a policy whose mode, if any, is a mapping: when no array
\* of the policy holds a mapping entry without a type or two mapping entries
\* of the same type, merging a copy of the policy with the policy returns a
\* document equal to the policy, nothing appended, and leaves the policy as
\* it was; otherwise the merge raises RuntimeError.
C5_SelfMergeIdempotentOnMergeable ==
    (pc = "self_merged"
     /\ (HasField(inp.policy, "mode") =>
            Kind(Val(inp.policy)["mode"]) = "map")) =>
        IF \A arr \in RootArrays(inp.policy) : Mergeable(arr)
        THEN /\ out.err = "none"
             /\ out.result = inp.policy
             /\ out.policy = inp.policy
        ELSE out.err = "RuntimeError"

\* a policy whose filters hold a scalar and a typed mapping was merged with
\* itself
C5_Witness ==
    /\ pc = "self_merged"
    /\ out.err = "none"
    /\ Val(inp.policy)["filters"] = L(<<S("alive"), TypedUpdate>>)
    /\ HasField(inp.policy, "actions")
    /\ out.result = inp.policy

\* the entries of base that are mappings of type t
DefaultsOfType(base, t) ==
    {n \in 1..Len(base) : Kind(base[n]) = "map" /\ HasType(base[n], t)}

\* entry r is entry u, with nothing dropped or changed, and with more fields
\* only where u lacks them and base holds them in an entry of u's type
KeepsAndFills(u, r, base) ==
    IF Kind(u) # "map" THEN r = u
    ELSE /\ Kind(r) = "map"
         /\ \A key \in DOMAIN Val(u) :
                key \in DOMAIN Val(r) /\ Val(r)[key] = Val(u)[key]
         /\ \A key \in (DOMAIN Val(r)) \ (DOMAIN Val(u)) :
                /\ HasField(u, "type")
                /\ \E n \in DefaultsOfType(base, Val(u)["type"]) :
                    /\ key \in DOMAIN Val(base[n])
                    /\ Val(base[n])[key] = Val(r)[key]

\* C6: when the array merge succeeds, the result starts with the update's
\* entries in their order, each with all of its fields at their values, and
\* with more fields only where it lacked them and the default of its type
\* holds them.
C6_UpdateFieldsAndOrderKept ==
    (pc = "array_merged" /\ out.err = "none") =>
        /\ Len(Val(out.result)) >= Len(inp.update)
        /\ \A n \in 1..Len(inp.update) :
            KeepsAndFills(inp.update[n], Val(out.result)[n], inp.base)

\* an update entry kept its own key and took op from the default of its type
C6_Witness ==
    /\ pc = "array_merged"
    /\ out.err = "none"
    /\ inp.base = <<TypedDefault>>
    /\ inp.update = <<S("alive"), TypedUpdate>>
    /\ Val(out.result)[2] =
        M([type |-> S("value"), key |-> S("from-policy"),
           op |-> S("from-defaults")])

\* the positions of the result after the update's entries
Appended == (Len(inp.update) + 1)..Len(Val(out.result))

\* C7: when the array merge succeeds, an update entry that follows another
\* update entry of its type is as it was (the default fills the first entry
\* of a type only), and each mapping appended to the result is a default of
\* base whose type no update entry has, appended once.
C7_DefaultsNeverDuplicated ==
    (pc = "array_merged" /\ out.err = "none") =>
        /\ \A n \in 1..Len(inp.update) :
            (/\ HasField(inp.update[n], "type")
             /\ \E m \in 1..(n - 1) :
                    HasType(inp.update[m], Val(inp.update[n])["type"])) =>
                Val(out.result)[n] = inp.update[n]
        /\ \A n \in Appended :
            Kind(Val(out.result)[n]) = "map" =>
                /\ Val(out.result)[n] \in Range(inp.base)
                /\ \A m \in 1..Len(inp.update) :
                    ~HasType(inp.update[m], Val(Val(out.result)[n])["type"])
                /\ \A m \in Appended :
                    Val(out.result)[m] = Val(out.result)[n] => m = n

\* the default of a type filled the first of two update entries of the type
\* and the default of another type was appended
C7_Witness ==
    /\ pc = "array_merged"
    /\ out.err = "none"
    /\ inp.base = <<TypedDefault, NotifyEntry>>
    /\ inp.update = <<TypedBare, TypedBare>>
    /\ Val(out.result) = <<TypedDefault, TypedBare, NotifyEntry>>

\* update holds a mapping where base holds a scalar or a sequence, or a
\* scalar where base holds a mapping or a sequence
MismatchedNoSequence ==
    \/ Kind(inp.update) = "map" /\ Kind(inp.base) \in {"str", "seq"}
    \/ Kind(inp.update) = "str" /\ Kind(inp.base) \in {"map", "seq"}

\* C15 as stated: when base and update hold values of different types at a
\* key and the update's value is no sequence, the merge ends without error
\* and the result holds the update's value at the key.
C15_MismatchOverwrites ==
    (pc = "conf_merged" /\ MismatchedNoSequence) =>
        /\ out.err = "none"
        /\ Val(out.result)[inp.key] = inp.update

====
